---- MODULE Spec2Model ----
(***************************************************************************)
(* Model of pages/1_Map.py: the raster-to-overlay pipeline                 *)
(* (process_geotiff), the layer loop of create_map, the hand-over of the   *)
(* map to st_folium and the clean-up loop over the temporary images.       *)
(*                                                                         *)
(* Numbers: cell values are integers.  Percentiles and everything derived  *)
(* from them are kept exactly, scaled by 100 (the percentile rank is a     *)
(* whole number of hundredths), so a normalised value is the fraction      *)
(* num/den of two integers.  NaN and +-inf are represented explicitly.     *)
(***************************************************************************)
EXTENDS Integers, Sequences, FiniteSets, TLC

\* ---------------------------------------------------------------- bounds
NumLayers == 2
MaxCells == 3
MaxVal == 2

\* ------------------------------------------------------------- constants
\* np.nan (a cell value that is no number); cell values are >= 0
NaN == -1
\* percentile ranks of np.nanpercentile(data, [2, 98])
PLow == 2
PHigh == 98
\* number of entries of a matplotlib colormap's lookup table
N == 256
\* opacities of the two configured layers, in percent
OpacitySatellite == 80
OpacityElevation == 70

DATA_DIR == "data"
DataPath == "data/EMwmeanByROC_reclass.tif"
MissingPath == "data/missing.tif"
FloatPath == "data/float_nodata.tif"
IntPath == "data/int_nodata.tif"
PlainPath == "data/plain.tif"

\* names plt.get_cmap resolves
Colormaps == {"viridis", "terrain"}
UnknownColormap == "no_such_cmap"

LayerNames == <<"Satellite Imagery", "Elevation", "Layer 3", "Layer 4">>

VARIABLES
  layers,      \* LAYERS: the ordered layer configuration of this run
  fs,          \* the raster files that exist: path -> dataset
  pc,          \* position of the script
  i,           \* position of the for loop of create_map in LAYERS
  pg,          \* locals of the running process_geotiff call
  raised,      \* the exception in flight
  image_path,  \* image_path returned by process_geotiff
  m,           \* the folium map: sequence of its children
  temp_files,  \* temp_files of create_map
  errors,      \* what st.error has reported
  tmpdir,      \* the files in the temporary directory: name -> content
  nextTmp,     \* the next fresh temporary file name
  rendered,    \* what st_folium has displayed
  j            \* position of the clean-up loop in temp_files

vars == <<layers, fs, pc, i, pg, raised, image_path, m, temp_files, errors,
          tmpdir, nextTmp, rendered, j>>

\* ------------------------------------------------------------ data model
Vals == 0..MaxVal
CellSeqs == UNION {[1..n -> Vals] : n \in 1..MaxCells}
Bounds == [bottom |-> 0, left |-> 0, top |-> 1, right |-> 1]

\* a dataset as rasterio opens it: band 1, its dtype, src.nodata, src.bounds
Rasters == [dtype : {"int", "float"}, has_nodata : BOOLEAN, nodata : Vals,
            cells : CellSeqs, bounds : {Bounds}]

NoExc == [cls |-> "", at |-> ""]
NoLocals == [data |-> <<>>, vmin |-> NaN, vmax |-> NaN, norm_data |-> <<>>,
             colored_data |-> <<>>, tmp |-> 0]
NotRendered == [done |-> FALSE, overlays |-> <<>>, listed |-> <<>>]

\* ------------------------------------------------- process_geotiff: math
\* an integer array cannot hold np.nan: the assignment raises ValueError
CanHoldNaN(dtype) == dtype = "float"

\* data[data == src.nodata] = np.nan
MaskNoData(data, nodata) ==
  [k \in DOMAIN data |-> IF data[k] = nodata THEN NaN ELSE data[k]]

RECURSIVE Insert(_, _)
Insert(x, s) ==
  IF s = <<>> THEN <<x>>
  ELSE IF x <= Head(s) THEN <<x>> \o s
  ELSE <<Head(s)>> \o Insert(x, Tail(s))

RECURSIVE SortCells(_)
SortCells(s) == IF s = <<>> THEN <<>> ELSE Insert(Head(s), SortCells(Tail(s)))

IsNum(v) == v # NaN

\* np.nanpercentile(data, q), linear interpolation, times 100;
\* NaN when no cell is a number
nanpercentile(data, q) ==
  LET a == SortCells(SelectSeq(data, IsNum))
      n == Len(a)
      pos == q * (n - 1)
      k == pos \div 100
      f == pos % 100
  IN IF n = 0 THEN NaN
     ELSE IF f = 0 THEN 100 * a[k + 1]
     ELSE 100 * a[k + 1] + f * (a[k + 2] - a[k + 1])

NaNCell == [nan |-> TRUE, num |-> 0, den |-> 0]

\* the stretch measured from the upper percentile: (data - vmax) / (vmax - vmin)
Normalize_FromHigh(v, vmin, vmax) ==
  IF v = NaN \/ vmin = NaN \/ vmax = NaN THEN NaNCell
  ELSE LET num == 100 * v - vmax
           den == vmax - vmin
       IN IF den = 0 /\ num = 0 THEN NaNCell
          ELSE [nan |-> FALSE, num |-> num, den |-> den]

\* (data - vmin) / (vmax - vmin) for one cell; vmin, vmax times 100.
\* 0/0 and anything with NaN is NaN; x/0 is +-inf (den = 0, num # 0)
Normalize(v, vmin, vmax) ==
  IF v = NaN \/ vmin = NaN \/ vmax = NaN THEN NaNCell
  ELSE LET num == 100 * v - vmin
           den == vmax - vmin
       IN IF den = 0 /\ num = 0 THEN NaNCell
          ELSE [nan |-> FALSE, num |-> num, den |-> den]

\* Colormap.__call__: index into the lookup table
i_under == N
i_over == N + 1
i_bad == N + 2

LutIndex(x) ==
  IF x.nan THEN i_bad
  ELSE IF x.den = 0 THEN (IF x.num < 0 THEN i_under ELSE i_over)
  ELSE IF x.num = x.den THEN N - 1
  ELSE IF x.num < 0 THEN i_under
  ELSE IF x.num > x.den THEN i_over
  ELSE (x.num * N) \div x.den

\* the lookup table: under and over take the end colours, bad is (0,0,0,0)
Lut(k) ==
  IF k = i_bad THEN [rgb |-> 0, alpha |-> 0]
  ELSE IF k = i_under THEN [rgb |-> 0, alpha |-> 1]
  ELSE IF k = i_over THEN [rgb |-> N - 1, alpha |-> 1]
  ELSE [rgb |-> k, alpha |-> 1]

cmap(norm_data) == [k \in DOMAIN norm_data |-> Lut(LutIndex(norm_data[k]))]

\* a lookup that falls back to a default palette for unknown names
Registered_Fallback(colormap_name) == TRUE

Registered(colormap_name) == colormap_name \in Colormaps

\* the default of NamedTemporaryFile: the file goes when it is closed
delete_Default == TRUE

\* NamedTemporaryFile(suffix='.png', delete=False)
delete == FALSE

\* --------------------------------------------------------- configuration
LAYERS(show_satellite, show_elevation) ==
  << [name |-> "Satellite Imagery", path |-> DataPath, colormap |-> "viridis",
      opacity |-> OpacitySatellite, active |-> show_satellite],
     [name |-> "Elevation", path |-> DataPath, colormap |-> "terrain",
      opacity |-> OpacityElevation, active |-> show_elevation] >>

\* the files of the general configuration
Catalogue ==
  FloatPath :> [dtype |-> "float", has_nodata |-> TRUE, nodata |-> 0,
                cells |-> <<0, 1, 2>>, bounds |-> Bounds]
  @@ IntPath :> [dtype |-> "int", has_nodata |-> TRUE, nodata |-> 0,
                 cells |-> <<0, 1, 2>>, bounds |-> Bounds]
  @@ PlainPath :> [dtype |-> "int", has_nodata |-> FALSE, nodata |-> 0,
                   cells |-> <<0, 1, 2>>, bounds |-> Bounds]

\* what the controls may choose for one layer
LayerChoices ==
  [path : {MissingPath, FloatPath, IntPath, PlainPath},
   colormap : {"viridis", UnknownColormap}, active : BOOLEAN]

InitRun ==
  /\ pc = "for"
  /\ i = 1
  /\ pg = NoLocals
  /\ raised = NoExc
  /\ image_path = 0
  /\ m = << [kind |-> "tiles", name |-> "openstreetmap"] >>
  /\ temp_files = <<>>
  /\ errors = <<>>
  /\ tmpdir = <<>>
  /\ nextTmp = 1
  /\ rendered = NotRendered
  /\ j = 1

\* any ordered layer configuration over a fixed set of files
Init ==
  /\ \E c \in [1..NumLayers -> LayerChoices] :
       layers = [k \in 1..NumLayers |->
                   [name |-> LayerNames[k], path |-> c[k].path,
                    colormap |-> c[k].colormap, opacity |-> OpacitySatellite,
                    active |-> c[k].active]]
  /\ fs = Catalogue
  /\ InitRun

\* the configuration of the script over any raster file (or none)
InitRaster ==
  /\ \E a \in BOOLEAN, b \in BOOLEAN : layers = LAYERS(a, b)
  /\ \/ fs = <<>>
     \/ \E r \in Rasters : fs = (DataPath :> r)
  /\ InitRun

\* ---------------------------------------------------------------- steps
Raise(cls, at) ==
  /\ raised' = [cls |-> cls, at |-> at]
  /\ pc' = "except"

\* for layer_name, layer_config in LAYERS.items(): if layer_config["active"]
For ==
  /\ pc = "for"
  /\ IF i > Len(layers) THEN pc' = "control" /\ i' = i
     ELSE IF layers[i].active THEN pc' = "open" /\ i' = i
     ELSE pc' = "for" /\ i' = i + 1
  /\ UNCHANGED <<layers, fs, pg, raised, image_path, m, temp_files, errors,
                 tmpdir, nextTmp, rendered, j>>

\* with rasterio.open(geotiff_path) as src: data = src.read(1)
Open ==
  /\ pc = "open"
  /\ IF layers[i].path \in DOMAIN fs
     THEN /\ pg' = [NoLocals EXCEPT !.data = fs[layers[i].path].cells]
          /\ pc' = "mask"
          /\ UNCHANGED raised
     ELSE /\ Raise("RasterioIOError", "open")
          /\ pg' = NoLocals
  /\ UNCHANGED <<layers, fs, i, image_path, m, temp_files, errors, tmpdir,
                 nextTmp, rendered, j>>

\* if src.nodata is not None: data[data == src.nodata] = np.nan
Mask ==
  /\ pc = "mask"
  /\ LET src == fs[layers[i].path]
     IN IF ~src.has_nodata
        THEN pc' = "normalize" /\ UNCHANGED <<pg, raised>>
        ELSE IF CanHoldNaN(src.dtype)
        THEN /\ pg' = [pg EXCEPT !.data = MaskNoData(pg.data, src.nodata)]
             /\ pc' = "normalize"
             /\ UNCHANGED raised
        ELSE /\ Raise("ValueError", "mask")
             /\ pg' = NoLocals
  /\ UNCHANGED <<layers, fs, i, image_path, m, temp_files, errors, tmpdir,
                 nextTmp, rendered, j>>

\* vmin, vmax = np.nanpercentile(data, [2, 98])
\* norm_data = (data - vmin) / (vmax - vmin)
NormalizeData ==
  /\ pc = "normalize"
  /\ LET vmin == nanpercentile(pg.data, PLow)
         vmax == nanpercentile(pg.data, PHigh)
     IN pg' = [pg EXCEPT !.vmin = vmin, !.vmax = vmax,
                         !.norm_data = [k \in DOMAIN pg.data |->
                                          Normalize(pg.data[k], vmin, vmax)]]
  /\ pc' = "cmap"
  /\ UNCHANGED <<layers, fs, i, raised, image_path, m, temp_files, errors,
                 tmpdir, nextTmp, rendered, j>>

\* cmap = plt.get_cmap(colormap_name); colored_data = cmap(norm_data)
ApplyColormap ==
  /\ pc = "cmap"
  /\ IF Registered(layers[i].colormap)
     THEN /\ pg' = [pg EXCEPT !.colored_data = cmap(pg.norm_data)]
          /\ pc' = "tmpfile"
          /\ UNCHANGED raised
     ELSE /\ Raise("ValueError", "get_cmap")
          /\ pg' = NoLocals
  /\ UNCHANGED <<layers, fs, i, image_path, m, temp_files, errors, tmpdir,
                 nextTmp, rendered, j>>

\* with NamedTemporaryFile(suffix='.png', delete=False) as tmp:
CreateTemp ==
  /\ pc = "tmpfile"
  /\ tmpdir' = (nextTmp :> <<>>) @@ tmpdir
  /\ pg' = [pg EXCEPT !.tmp = nextTmp]
  /\ nextTmp' = nextTmp + 1
  /\ pc' = "imsave"
  /\ UNCHANGED <<layers, fs, i, raised, image_path, m, temp_files, errors,
                 rendered, j>>

\* leaving the with block closes tmp; the file stays unless delete is set
CloseTemp(dir, tmp) ==
  IF delete THEN [f \in DOMAIN dir \ {tmp} |-> dir[f]] ELSE dir

\* plt.imsave(tmp.name, colored_data, format='png'); temp_image_path =
\* tmp.name; return temp_image_path, bounds.  Encoding or writing may fail.
ImSave ==
  /\ pc = "imsave"
  /\ \E ok \in BOOLEAN :
       IF ok
       THEN /\ tmpdir' = CloseTemp([tmpdir EXCEPT ![pg.tmp] = pg.colored_data],
                                   pg.tmp)
            /\ image_path' = pg.tmp
            /\ pc' = "append"
            /\ UNCHANGED raised
       ELSE /\ tmpdir' = CloseTemp(tmpdir, pg.tmp)
            /\ Raise("OSError", "imsave")
            /\ UNCHANGED image_path
  /\ pg' = NoLocals
  /\ UNCHANGED <<layers, fs, i, m, temp_files, errors, nextTmp, rendered, j>>

\* temp_files.append(image_path)
AppendTemp ==
  /\ pc = "append"
  /\ temp_files' = Append(temp_files, image_path)
  /\ pc' = "overlay"
  /\ UNCHANGED <<layers, fs, i, pg, raised, image_path, m, errors, tmpdir,
                 nextTmp, rendered, j>>

\* a map that puts a new child below the others
AddToMap_Below(map, child) == <<child>> \o map

\* .add_to(m)
AddToMap(map, child) == Append(map, child)

\* folium.raster_layers.ImageOverlay(image=image_path, ...).add_to(m):
\* the constructor reads the image file and embeds its content
ImageOverlay ==
  /\ pc = "overlay"
  /\ \E ok \in BOOLEAN :
       IF ok /\ image_path \in DOMAIN tmpdir
       THEN /\ m' = AddToMap(m, [kind |-> "overlay", name |-> layers[i].name,
                                 image |-> tmpdir[image_path],
                                 file |-> image_path,
                                 bounds |-> fs[layers[i].path].bounds,
                                 opacity |-> layers[i].opacity])
            /\ i' = i + 1
            /\ pc' = "for"
            /\ UNCHANGED raised
       ELSE /\ Raise(IF image_path \in DOMAIN tmpdir THEN "ValueError"
                     ELSE "FileNotFoundError", "overlay")
            /\ UNCHANGED <<m, i>>
  /\ UNCHANGED <<layers, fs, pg, image_path, temp_files, errors, tmpdir,
                 nextTmp, rendered, j>>

\* a handler that catches I/O failures only
Caught_OnlyIO(cls) ==
  cls \in {"RasterioIOError", "OSError", "FileNotFoundError"}

\* the classes "except Exception" catches
Caught(cls) ==
  cls \in {"RasterioIOError", "ValueError", "OSError", "FileNotFoundError"}

\* a report that names the data directory instead of the path attempted
ErrorReport_DataDir(layer, e) ==
  [name |-> layer.name, error |-> e.cls, path |-> DATA_DIR]

\* st.error(f"Failed to load {layer_name}: {str(e)}")
\* st.error(f"File path attempted: {layer_config['path']}")
ErrorReport(layer, e) ==
  [name |-> layer.name, error |-> e.cls, path |-> layer.path]

\* except Exception as e:
Except ==
  /\ pc = "except"
  /\ IF Caught(raised.cls)
     THEN /\ errors' = Append(errors, ErrorReport(layers[i], raised))
          /\ raised' = NoExc
          /\ i' = i + 1
          /\ pc' = "for"
     ELSE /\ pc' = "escaped"
          /\ UNCHANGED <<errors, raised, i>>
  /\ UNCHANGED <<layers, fs, pg, image_path, m, temp_files, tmpdir, nextTmp,
                 rendered, j>>

\* a create_map that never adds the control
LayerControl_Forgotten(map) == map

\* folium.LayerControl().add_to(m)
LayerControl(map) == Append(map, [kind |-> "control", name |-> "LayerControl"])

\* folium.LayerControl().add_to(m); return m, temp_files
AddLayerControl ==
  /\ pc = "control"
  /\ m' = LayerControl(m)
  /\ pc' = "st_folium"
  /\ UNCHANGED <<layers, fs, i, pg, raised, image_path, temp_files, errors,
                 tmpdir, nextTmp, rendered, j>>

IsOverlay(child) == child.kind = "overlay"
IsControl(child) == child.kind = "control"
Overlays(map) == SelectSeq(map, IsOverlay)
NamesOf(s) == [k \in DOMAIN s |-> s[k].name]

\* map_output = st_folium(map_obj, ...): the map is rendered; its layer
\* control lists the overlays that are children of the map
StFolium ==
  /\ pc = "st_folium"
  /\ rendered' = [done |-> TRUE, overlays |-> Overlays(m),
                  listed |-> IF \E k \in DOMAIN m : IsControl(m[k])
                             THEN NamesOf(Overlays(m)) ELSE <<>>]
  /\ j' = 1
  /\ pc' = "cleanup"
  /\ UNCHANGED <<layers, fs, i, pg, raised, image_path, m, temp_files, errors,
                 tmpdir, nextTmp>>

\* for temp_file in temp_files: try: os.unlink(temp_file) except: pass
Cleanup ==
  /\ pc = "cleanup"
  /\ IF j > Len(temp_files)
     THEN pc' = "done" /\ UNCHANGED <<tmpdir, j>>
     ELSE /\ tmpdir' = [f \in DOMAIN tmpdir \ {temp_files[j]} |-> tmpdir[f]]
          /\ j' = j + 1
          /\ pc' = "cleanup"
  /\ UNCHANGED <<layers, fs, i, pg, raised, image_path, m, temp_files, errors,
                 nextTmp, rendered>>

Next ==
  \/ For
  \/ Open
  \/ Mask
  \/ NormalizeData
  \/ ApplyColormap
  \/ CreateTemp
  \/ ImSave
  \/ AppendTemp
  \/ ImageOverlay
  \/ Except
  \/ AddLayerControl
  \/ StFolium
  \/ Cleanup

Spec == Init /\ [][Next]_vars

SpecRaster == InitRaster /\ [][Next]_vars

\* ------------------------------------------------------------ properties
Returned == pc \in {"st_folium", "cleanup", "done"}
ActiveLayers == {k \in DOMAIN layers : layers[k].active}
OverlaysOf(k) == {a \in DOMAIN Overlays(m) : Overlays(m)[a].name = layers[k].name}
ErrorsOf(k) == {a \in DOMAIN errors : errors[a].name = layers[k].name}
Created == 1..(nextTmp - 1)
Recorded == {temp_files[a] : a \in DOMAIN temp_files}
Source == fs[layers[i].path]
InCall == pc \in {"mask", "normalize", "cmap", "tmpfile", "imsave"}

\* C1: when the pass is over (the clean-up loop has run), every temporary
\* image created during the pass was recorded in temp_files and none is left
\* in the temporary directory, also when a process_geotiff call raised after
\* it had created its file.
C1_NoArtifactRemains ==
  pc = "done" => Created \subseteq Recorded /\ DOMAIN tmpdir = {}

\* C2: no exception of a layer's processing escapes create_map; when
\* create_map has returned, the loop has gone through the whole configuration
\* and every active layer, also one configured after a failing layer, has
\* been processed.
C2_FailureNeverAborts ==
  /\ pc # "escaped"
  /\ Returned =>
       /\ i = Len(layers) + 1
       /\ \A k \in ActiveLayers : OverlaysOf(k) # {} \/ ErrorsOf(k) # {}

\* a layer failed and a layer configured after it was registered
C2_Witness ==
  /\ Returned
  /\ \E a \in ActiveLayers, b \in ActiveLayers :
       a < b /\ ErrorsOf(a) # {} /\ OverlaysOf(b) # {}

\* C3: every active layer the loop has passed has exactly one outcome, an
\* overlay on the map or a reported failure that names the layer and the
\* path attempted, never both; an inactive layer and a layer not yet reached
\* has none; when create_map has returned, overlays + failures = number of
\* active layers.
C3_OneOutcomePerLayer ==
  /\ \A k \in DOMAIN layers :
       /\ Cardinality(OverlaysOf(k)) + Cardinality(ErrorsOf(k)) =
            IF k \in ActiveLayers /\ k < i THEN 1 ELSE 0
       /\ \A a \in ErrorsOf(k) : errors[a].path = layers[k].path
  /\ \A a \in DOMAIN errors : \E k \in ActiveLayers : a \in ErrorsOf(k)
  /\ Returned => Len(Overlays(m)) + Len(errors) = Cardinality(ActiveLayers)

\* a pass that ended with an overlay and with a reported failure
C3_Witness == Returned /\ Len(Overlays(m)) >= 1 /\ Len(errors) >= 1

RECURSIVE Succeeded(_)
\* the names of the first k layers that are active and did not fail, in
\* configured order
Succeeded(k) ==
  IF k = 0 THEN <<>>
  ELSE IF k \in ActiveLayers /\ ErrorsOf(k) = {} /\ k < i
       THEN Append(Succeeded(k - 1), layers[k].name)
       ELSE Succeeded(k - 1)

\* C4: the overlays on the map are, in this order, the layers that are
\* active and were processed successfully, in configured order; no overlay of
\* an inactive layer is on the map.
C4_OverlayOrder == NamesOf(Overlays(m)) = Succeeded(Len(layers))

\* two overlays were added
C4_Witness == Returned /\ Len(Overlays(m)) >= 2

\* C5: on a raster that declares a no-data value, masking does not raise,
\* every cell equal to the no-data value is coloured with alpha 0, and the
\* percentiles are those of the other cells alone.
C5_NoDataTransparent ==
  /\ ~(pc = "except" /\ raised.at = "mask")
  /\ (pc = "tmpfile" /\ Source.has_nodata) =>
       /\ \A k \in DOMAIN Source.cells :
            Source.cells[k] = Source.nodata => pg.colored_data[k].alpha = 0
       /\ LET NotSentinel(v) == v # Source.nodata
              rest == SelectSeq(Source.cells, NotSentinel)
          IN /\ pg.vmin = nanpercentile(rest, PLow)
             /\ pg.vmax = nanpercentile(rest, PHigh)

\* C6: when all defined cells of the raster have one value, the defined
\* cells get one colour of the palette, which is not the transparent colour
\* of the undefined cells.
C6_DegenerateSingleColour ==
  (/\ pc = "tmpfile"
   /\ pg.vmin # NaN
   /\ \A k \in DOMAIN pg.data : pg.data[k] # NaN => 100 * pg.data[k] = pg.vmin)
  => \A k \in DOMAIN pg.data :
       pg.data[k] # NaN =>
         /\ pg.colored_data[k].alpha = 1
         /\ \A l \in DOMAIN pg.data :
              pg.data[l] # NaN => pg.colored_data[l] = pg.colored_data[k]

\* C7: a temporary image leaves the temporary directory only in the clean-up
\* loop, that is after the loop over the layers has ended and st_folium has
\* rendered the map, and then every overlay made from it has been displayed.
C7_ReleaseAfterRender ==
  [][(\E f \in DOMAIN tmpdir : f \notin DOMAIN tmpdir') =>
       /\ pc = "cleanup"
       /\ i = Len(layers) + 1
       /\ rendered.done
       /\ \A f \in DOMAIN tmpdir \ DOMAIN tmpdir' :
            \A a \in DOMAIN Overlays(m) :
              Overlays(m)[a].file = f =>
                \E b \in DOMAIN rendered.overlays :
                  rendered.overlays[b] = Overlays(m)[a]]_vars

\* the clean-up loop has unlinked the image of a displayed overlay
C7_Witness ==
  /\ pc = "cleanup"
  /\ j > 1
  /\ \E a \in DOMAIN rendered.overlays :
       rendered.overlays[a].file = temp_files[j - 1]
  /\ temp_files[j - 1] \notin DOMAIN tmpdir

\* C8: the map has no layer control while the loop over the layers runs and
\* exactly one, its last child, once create_map has returned; the overlays
\* the rendered control lists are exactly the layers that are active and did
\* not fail.
C8_LayerControlOnce ==
  /\ Cardinality({a \in DOMAIN m : IsControl(m[a])}) = IF Returned THEN 1 ELSE 0
  /\ Returned => IsControl(m[Len(m)])
  /\ rendered.done => rendered.listed = Succeeded(Len(layers))

\* a rendered control that lists an overlay while another layer failed
C8_Witness ==
  rendered.done /\ Len(rendered.listed) >= 1 /\ Len(errors) >= 1

\* C9: while the loop is at a layer whose palette name is not registered,
\* no step creates a temporary file, records one or changes the map; once
\* the loop has passed the layer, if it is active, its failure is reported
\* and no overlay of it is on the map.
C9_UnknownPalette ==
  /\ [](\A k \in ActiveLayers :
          (k < i /\ layers[k].colormap \notin Colormaps) =>
            OverlaysOf(k) = {} /\ Cardinality(ErrorsOf(k)) = 1)
  /\ [][(i <= Len(layers) /\ layers[i].colormap \notin Colormaps) =>
          /\ tmpdir' = tmpdir
          /\ nextTmp' = nextTmp
          /\ temp_files' = temp_files
          /\ m' = m]_vars

\* get_cmap has rejected the palette name of an active layer whose raster
\* was read and normalised
C9_Witness ==
  /\ pc = "except"
  /\ raised.at = "get_cmap"
  /\ layers[i].colormap \notin Colormaps

DefinedCells == {k \in DOMAIN pg.data : pg.data[k] # NaN}
InUnit(x) == ~x.nan /\ x.den > 0 /\ 0 <= x.num /\ x.num <= x.den

\* C10 as stated: every defined cell is passed to the palette as a value in
\* [0,1], a cell at low as 0 and a cell at high as 1 (taken on rasters with
\* low < high; the degenerate stretch is the subject of C6).
C10_Clamped ==
  (pc = "cmap" /\ pg.vmin # NaN /\ pg.vmin < pg.vmax) =>
    \A k \in DefinedCells :
      /\ InUnit(pg.norm_data[k])
      /\ 100 * pg.data[k] = pg.vmin => pg.norm_data[k].num = 0
      /\ 100 * pg.data[k] = pg.vmax => pg.norm_data[k].num = pg.norm_data[k].den

\* C10 amended: the normalization step does not clamp.  With low < high a
\* defined cell is passed as a value in [0,1] exactly when it lies in
\* [low, high], a cell at low as 0 and a cell at high as 1, a cell below low
\* as a negative value and a cell above high as a value above 1; with
\* low = high a cell at that value is passed as NaN.
C10_Unclamped ==
  pc = "cmap" =>
    \A k \in DefinedCells :
      LET v == 100 * pg.data[k]
          x == pg.norm_data[k]
      IN IF pg.vmin < pg.vmax
         THEN /\ ~x.nan /\ x.den > 0
              /\ (v = pg.vmin) => x.num = 0
              /\ (v = pg.vmax) => x.num = x.den
              /\ (pg.vmin <= v /\ v <= pg.vmax) <=> InUnit(x)
              /\ (v < pg.vmin) <=> x.num < 0
              /\ (v > pg.vmax) <=> x.num > x.den
         ELSE (v = pg.vmin) => x.nan

\* a raster with a cell below low and a cell exactly at high
C10_Witness ==
  /\ pc = "cmap"
  /\ pg.vmin < pg.vmax
  /\ \E k \in DefinedCells : 100 * pg.data[k] < pg.vmin
  /\ \E k \in DefinedCells : 100 * pg.data[k] = pg.vmax
====
